---- MODULE Spec2Model ----
(***************************************************************************)
(* Model of images/crop_whitespace.py: remove_background (corner-sampled   *)
(* background candidates, edge-seeded 4-connected flood fill, transparency *)
(* pass, crop to the bounding box of the opaque pixels) and the batch loop *)
(* that calls it once per input file and saves the result.                  *)
(*                                                                         *)
(* An image is a record [mode, w, h, px]; px maps <<x, y>> (0-based, as in *)
(* PIL) to a pixel, <<r, g, b>> or <<r, g, b, a>>.  A Python pixel[i] is    *)
(* pixel[i + 1] here.  A file name is a sequence of characters.            *)
(***************************************************************************)
EXTENDS Integers, Sequences, FiniteSets, TLC

VARIABLES
    folder,              \* input_folder: file name -> decoded content
    outdir,              \* output_folder: file name -> content
    existing_outputs,    \* line 14: stems of the .png files found at start-up
    force,               \* line 98
    todo,                \* files of os.listdir(input_folder) not yet iterated
    filename,            \* the loop variable of line 106
    files_processed, files_skipped, files_skipped_no_bg,
    writes,              \* history: saves per output name during this run
    img, tol,            \* the arguments of the current remove_background call
    pc,                  \* control point
    bg_candidates,       \* line 38
    pixels,              \* the RGBA buffer of lines 44-45, written at line 88
    visited, q,          \* lines 57-58
    result,              \* the value returned by remove_background
    enq,                 \* history: q.append count per pixel during this call
    prev                 \* history: the previous call of remove_background

callvars == <<img, tol, bg_candidates, pixels, visited, q, result, enq>>
loopvars == <<folder, outdir, existing_outputs, force, todo, filename,
              files_processed, files_skipped, files_skipped_no_bg, writes>>
vars == <<folder, outdir, existing_outputs, force, todo, filename,
          files_processed, files_skipped, files_skipped_no_bg, writes,
          img, tol, pc, bg_candidates, pixels, visited, q, result, enq, prev>>

----------------------------------------------------------------------------
(* Bounds of the model.                                                    *)
MaxW == 3
MaxH == 3
MaxRed == 4
ToneW == 3
ToneH == 3
MaxTinted == 4

(* Program constants.                                                      *)
TOLERANCE == 15

None == [mode |-> "None"]
Unset == [mode |-> "unset"]

----------------------------------------------------------------------------
(* Images.                                                                 *)
Coords(w, h) == (0 .. (w - 1)) \X (0 .. (h - 1))

Image(w, h, f) == [mode |-> "RGBA", w |-> w, h |-> h, px |-> f]

White == <<255, 255, 255>>
Cream == <<240, 240, 240>>
Grey  == <<225, 225, 225>>
Red   == <<255, 0, 0>>
Black == <<0, 0, 0>>

WithAlpha(p, a) == <<p[1], p[2], p[3], a>>

\* Near-white tones one and two default tolerances below white.
Tones == {White, Cream, Grey}

Tols == {0, TOLERANCE, 2 * TOLERANCE}

----------------------------------------------------------------------------
(* remove_background, lines 16-95.                                         *)

\* Image.convert that carries the alpha band through
convert_keep_alpha(im, mode) == [im EXCEPT !.mode = mode]

\* line 25 / line 44: Image.convert
convert(im, mode) ==
    [mode |-> mode, w |-> im.w, h |-> im.h,
     px |-> [c \in DOMAIN im.px |->
               IF mode = "RGB" THEN <<im.px[c][1], im.px[c][2], im.px[c][3]>>
               ELSE IF Len(im.px[c]) = 4 THEN im.px[c]
               ELSE <<im.px[c][1], im.px[c][2], im.px[c][3], 255>>]]

\* lines 28-29 with the comparison turned around
is_near_white_below(pixel, t) == \A i \in 1 .. 3 : pixel[i] <= 255 - t

\* lines 28-29 with twice the tolerance
is_near_white_twice(pixel, t) == \A i \in 1 .. 3 : pixel[i] >= 255 - 2 * t

\* lines 28-29 with any() for all()
is_near_white_any(pixel, t) == \E i \in 1 .. 3 : pixel[i] >= 255 - t

\* lines 28-29
is_near_white(pixel, t) == \A i \in 1 .. 3 : pixel[i] >= 255 - t

\* lines 31-36
corner_pixels(rgb) ==
    << rgb.px[<<0, 0>>], rgb.px[<<rgb.w - 1, 0>>],
       rgb.px[<<0, rgb.h - 1>>], rgb.px[<<rgb.w - 1, rgb.h - 1>>] >>

\* line 38
candidates(rgb, t) ==
    { corner_pixels(rgb)[i] : i \in { j \in 1 .. 4 : is_near_white(corner_pixels(rgb)[j], t) } }

Abs(n) == IF n < 0 THEN -n ELSE n

\* lines 47-55
is_bg(pixel, cands, t) ==
    \/ \E bg \in cands : \A i \in 1 .. 3 : Abs(pixel[i] - bg[i]) <= t
    \/ is_near_white(pixel, t)

\* lines 60-64 without the visited test
enqueue_if_bg_again(x, y, s) ==
    IF 0 <= x /\ x < pixels.w /\ 0 <= y /\ y < pixels.h
    THEN IF is_bg(pixels.px[<<x, y>>], bg_candidates, tol)
         THEN [visited |-> [s.visited EXCEPT ![<<x, y>>] = TRUE],
               q |-> Append(s.q, <<x, y>>)]
         ELSE s
    ELSE s

\* lines 60-64; s = [visited, q]
enqueue_if_bg(x, y, s) ==
    IF 0 <= x /\ x < pixels.w /\ 0 <= y /\ y < pixels.h /\ ~s.visited[<<x, y>>]
    THEN IF is_bg(pixels.px[<<x, y>>], bg_candidates, tol)
         THEN [visited |-> [s.visited EXCEPT ![<<x, y>>] = TRUE],
               q |-> Append(s.q, <<x, y>>)]
         ELSE s
    ELSE s

\* lines 67-72: the coordinates the two seeding loops pass to enqueue_if_bg
seed_calls(w, h) ==
    [i \in 1 .. 2 * w |-> IF i % 2 = 1 THEN <<(i - 1) \div 2, 0>>
                                        ELSE <<(i - 2) \div 2, h - 1>>]
    \o
    [i \in 1 .. 2 * h |-> IF i % 2 = 1 THEN <<0, (i - 1) \div 2>>
                                        ELSE <<w - 1, (i - 2) \div 2>>]

RECURSIVE seed(_, _)
seed(cs, s) ==
    IF cs = << >> THEN s
    ELSE seed(Tail(cs), enqueue_if_bg(Head(cs)[1], Head(cs)[2], s))

\* line 77 without the step upwards
neighbours3(x, y) == << <<x + 1, y>>, <<x - 1, y>>, <<x, y + 1>> >>

\* 8-connected variant of line 77
neighbours8(x, y) ==
    << <<x + 1, y>>, <<x - 1, y>>, <<x, y + 1>>, <<x, y - 1>>,
       <<x + 1, y + 1>>, <<x - 1, y - 1>>, <<x + 1, y - 1>>, <<x - 1, y + 1>> >>

\* line 77
neighbours(x, y) == << <<x + 1, y>>, <<x - 1, y>>, <<x, y + 1>>, <<x, y - 1>> >>

\* lines 78-81
visit(nx, ny, s) ==
    IF 0 <= nx /\ nx < pixels.w /\ 0 <= ny /\ ny < pixels.h /\ ~s.visited[<<nx, ny>>]
    THEN IF is_bg(pixels.px[<<nx, ny>>], bg_candidates, tol)
         THEN [visited |-> [s.visited EXCEPT ![<<nx, ny>>] = TRUE],
               q |-> Append(s.q, <<nx, ny>>)]
         ELSE s
    ELSE s

RECURSIVE visit_all(_, _)
visit_all(ns, s) ==
    IF ns = << >> THEN s
    ELSE visit_all(Tail(ns), visit(Head(ns)[1], Head(ns)[2], s))

\* lines 76-81: one iteration of the while loop
expand(s) ==
    visit_all(neighbours(Head(s.q)[1], Head(s.q)[2]),
              [visited |-> s.visited, q |-> Tail(s.q)])

\* lines 84-88
apply_transparency(buf, vis) ==
    [buf EXCEPT !.px = [c \in DOMAIN buf.px |->
        IF vis[c] THEN <<buf.px[c][1], buf.px[c][2], buf.px[c][3], 0>>
        ELSE buf.px[c]]]

Min(S) == CHOOSE n \in S : \A m \in S : n <= m
Max(S) == CHOOSE n \in S : \A m \in S : n >= m

\* lines 91-92 with an inclusive right and lower edge
getbbox_inclusive(buf) ==
    LET nz == { c \in DOMAIN buf.px : buf.px[c][4] # 0 }
    IN  IF nz = {} THEN None
        ELSE << Min({c[1] : c \in nz}), Min({c[2] : c \in nz}),
                Max({c[1] : c \in nz}), Max({c[2] : c \in nz}) >>

\* lines 91-92: the alpha band's getbbox, <<left, upper, right, lower>> or None
getbbox(buf) ==
    LET nz == { c \in DOMAIN buf.px : buf.px[c][4] # 0 }
    IN  IF nz = {} THEN None
        ELSE << Min({c[1] : c \in nz}), Min({c[2] : c \in nz}),
                Max({c[1] : c \in nz}) + 1, Max({c[2] : c \in nz}) + 1 >>

\* line 94
crop(buf, box) ==
    [mode |-> buf.mode, w |-> box[3] - box[1], h |-> box[4] - box[2],
     px |-> [c \in Coords(box[3] - box[1], box[4] - box[2]) |->
               buf.px[<<c[1] + box[1], c[2] + box[2]>>]]]

\* lines 90-95
trimmed(buf) == IF getbbox(buf) # None THEN crop(buf, getbbox(buf)) ELSE buf

\* history: the appends that turn queue `before` (after any popleft) into `after`
Appended(before, after, counts) ==
    [c \in DOMAIN counts |->
        counts[c] + Cardinality({ i \in (Len(before) + 1) .. Len(after) : after[i] = c })]

\* lines 25-58
Begin ==
    /\ pc = "call"
    /\ LET rgb == convert(img, "RGB")
       IN  IF candidates(rgb, tol) = {}
           THEN /\ result' = None
                /\ pc' = "done"
                /\ UNCHANGED <<bg_candidates, pixels, visited, q, enq>>
           ELSE /\ bg_candidates' = candidates(rgb, tol)
                /\ pixels' = convert(rgb, "RGBA")
                /\ visited' = [c \in Coords(rgb.w, rgb.h) |-> FALSE]
                /\ q' = << >>
                /\ enq' = [c \in Coords(rgb.w, rgb.h) |-> 0]
                /\ pc' = "seed"
                /\ UNCHANGED result
    /\ UNCHANGED <<img, tol, prev>>
    /\ UNCHANGED loopvars

\* lines 66-72
SeedEdges ==
    /\ pc = "seed"
    /\ LET s == seed(seed_calls(pixels.w, pixels.h), [visited |-> visited, q |-> q])
       IN  /\ visited' = s.visited
           /\ q' = s.q
           /\ enq' = Appended(q, s.q, enq)
    /\ pc' = "fill"
    /\ UNCHANGED <<img, tol, bg_candidates, pixels, result, prev>>
    /\ UNCHANGED loopvars

\* lines 75-81
FillStep ==
    /\ pc = "fill"
    /\ q # << >>
    /\ LET s == expand([visited |-> visited, q |-> q])
       IN  /\ visited' = s.visited
           /\ q' = s.q
           /\ enq' = Appended(Tail(q), s.q, enq)
    /\ UNCHANGED <<img, tol, pc, bg_candidates, pixels, result, prev>>
    /\ UNCHANGED loopvars

\* lines 83-95
ApplyAndCrop ==
    /\ pc = "fill"
    /\ q = << >>
    /\ pixels' = apply_transparency(pixels, visited)
    /\ result' = trimmed(apply_transparency(pixels, visited))
    /\ pc' = "done"
    /\ UNCHANGED <<img, tol, bg_candidates, visited, q, enq, prev>>
    /\ UNCHANGED loopvars

----------------------------------------------------------------------------
(* File names, lines 14 and 107-108.                                       *)
\* File names are sequences of characters of Basic Latin and Latin-1
\* Supplement (U+0000 - U+00FF). UpperCase lists the characters of that range
\* that str.lower changes, LowerCase their images, in the same order; every
\* other character of the range is left as it is.
UpperCase == << "A", "B", "C", "D", "E", "F", "G", "H", "I", "J", "K", "L", "M",
                "N", "O", "P", "Q", "R", "S", "T", "U", "V", "W", "X", "Y", "Z",
                "À", "Á", "Â", "Ã", "Ä", "Å", "Æ", "Ç", "È", "É", "Ê", "Ë", "Ì",
                "Í", "Î", "Ï", "Ð", "Ñ", "Ò", "Ó", "Ô", "Õ", "Ö", "Ø", "Ù", "Ú",
                "Û", "Ü", "Ý", "Þ" >>
LowerCase == << "a", "b", "c", "d", "e", "f", "g", "h", "i", "j", "k", "l", "m",
                "n", "o", "p", "q", "r", "s", "t", "u", "v", "w", "x", "y", "z",
                "à", "á", "â", "ã", "ä", "å", "æ", "ç", "è", "é", "ê", "ë", "ì",
                "í", "î", "ï", "ð", "ñ", "ò", "ó", "ô", "õ", "ö", "ø", "ù", "ú",
                "û", "ü", "ý", "þ" >>

\* str.lower
lower(s) ==
    [i \in 1 .. Len(s) |->
        IF \E k \in 1 .. Len(UpperCase) : UpperCase[k] = s[i]
        THEN LowerCase[CHOOSE k \in 1 .. Len(UpperCase) : UpperCase[k] = s[i]]
        ELSE s[i]]

\* str.endswith
endswith(s, suffix) ==
    /\ Len(s) >= Len(suffix)
    /\ SubSeq(s, Len(s) - Len(suffix) + 1, Len(s)) = suffix

\* os.path.splitext: split at the last dot that has a non-dot character before it
splitext(s) ==
    LET dots == { i \in 1 .. Len(s) : s[i] = "." }
    IN  IF dots # {} /\ (\E j \in 1 .. (Max(dots) - 1) : s[j] # ".")
        THEN << SubSeq(s, 1, Max(dots) - 1), SubSeq(s, Max(dots), Len(s)) >>
        ELSE << s, << >> >>

PNG == << ".", "p", "n", "g" >>
JPG == << ".", "j", "p", "g" >>
JPEG == << ".", "j", "p", "e", "g" >>

\* line 107
is_image_name(f) ==
    endswith(lower(f), PNG) \/ endswith(lower(f), JPG) \/ endswith(lower(f), JPEG)

\* line 108
stem_of(f) == lower(splitext(f)[1])

\* line 119
out_name_of(f) == stem_of(f) \o PNG

\* line 14
scan_outputs(dir) ==
    { lower(splitext(f)[1]) : f \in { g \in DOMAIN dir : endswith(lower(g), PNG) } }

----------------------------------------------------------------------------
(* The batch loop, lines 97-123.                                           *)
Corrupt == [mode |-> "corrupt"]
Old == [mode |-> "old"]
\* an entry of the output folder that is a directory
Dir == [mode |-> "dir"]
\* what a save that raised part-way has left of a file
Partial == [mode |-> "partial"]

\* a new frame of remove_background: its locals are not yet assigned
Frame ==
    /\ bg_candidates' = {}
    /\ pixels' = Unset
    /\ visited' = Unset
    /\ q' = << >>
    /\ enq' = Unset
    /\ result' = Unset

\* lines 106-107: a listed file that has no image extension
NotImage(f) ==
    /\ pc = "loop"
    /\ f \in todo
    /\ ~is_image_name(f)
    /\ todo' = todo \ {f}
    /\ filename' = f
    /\ UNCHANGED <<folder, outdir, existing_outputs, force,
                   files_processed, files_skipped, files_skipped_no_bg, writes>>
    /\ UNCHANGED <<pc, prev>>
    /\ UNCHANGED callvars

\* lines 108-111
SkipExisting(f) ==
    /\ pc = "loop"
    /\ f \in todo
    /\ is_image_name(f)
    /\ stem_of(f) \in existing_outputs /\ ~force
    /\ files_skipped' = files_skipped + 1
    /\ todo' = todo \ {f}
    /\ filename' = f
    /\ UNCHANGED <<folder, outdir, existing_outputs, force,
                   files_processed, files_skipped_no_bg, writes>>
    /\ UNCHANGED <<pc, prev>>
    /\ UNCHANGED callvars

\* lines 112-114 and 122-123: Image.open raises, the except clause reports it
OpenFails(f) ==
    /\ pc = "loop"
    /\ f \in todo
    /\ is_image_name(f)
    /\ ~(stem_of(f) \in existing_outputs /\ ~force)
    /\ folder[f] = Corrupt
    /\ todo' = todo \ {f}
    /\ filename' = f
    /\ UNCHANGED <<folder, outdir, existing_outputs, force,
                   files_processed, files_skipped, files_skipped_no_bg, writes>>
    /\ UNCHANGED <<pc, prev>>
    /\ UNCHANGED callvars

\* lines 112-115 without the test of line 109
OpenAnyway(f) ==
    /\ pc = "loop"
    /\ f \in todo
    /\ is_image_name(f)
    /\ folder[f] # Corrupt
    /\ todo' = todo \ {f}
    /\ filename' = f
    /\ img' = folder[f]
    /\ tol' = TOLERANCE
    /\ Frame
    /\ pc' = "call"
    /\ UNCHANGED <<folder, outdir, existing_outputs, force,
                   files_processed, files_skipped, files_skipped_no_bg, writes, prev>>

\* lines 112-115: the file is opened and remove_background(img) is entered
Open(f) ==
    /\ pc = "loop"
    /\ f \in todo
    /\ is_image_name(f)
    /\ ~(stem_of(f) \in existing_outputs /\ ~force)
    /\ folder[f] # Corrupt
    /\ todo' = todo \ {f}
    /\ filename' = f
    /\ img' = folder[f]
    /\ tol' = TOLERANCE
    /\ Frame
    /\ pc' = "call"
    /\ UNCHANGED <<folder, outdir, existing_outputs, force,
                   files_processed, files_skipped, files_skipped_no_bg, writes, prev>>

\* line 120: Image.save
save(dir, name, content) ==
    [n \in (DOMAIN dir) \cup {name} |-> IF n = name THEN content ELSE dir[n]]

\* lines 115-123: remove_background has returned. A None result is counted
\* and nothing is saved. Otherwise the buffer is saved and the file counted,
\* or save raises and the except clause reports it: save raises when the
\* target is a directory, and may raise on any I/O error, in which case the
\* target is as it was or, when the error came after it was opened for
\* writing, holds a partial file.
Return ==
    /\ pc = "done"
    /\ IF result = None
       THEN /\ files_skipped_no_bg' = files_skipped_no_bg + 1
            /\ UNCHANGED <<outdir, files_processed, writes>>
       ELSE LET out_name == out_name_of(filename)
                is_dir == out_name \in DOMAIN outdir /\ outdir[out_name] = Dir
            IN  \/ /\ ~is_dir
                   /\ outdir' = save(outdir, out_name, result)
                   /\ files_processed' = files_processed + 1
                   /\ writes' = [writes EXCEPT ![out_name] = @ + 1]
                   /\ UNCHANGED files_skipped_no_bg
                \/ /\ \/ outdir' = outdir
                      \/ ~is_dir /\ outdir' = save(outdir, out_name, Partial)
                   /\ UNCHANGED <<files_processed, writes, files_skipped_no_bg>>
    /\ pc' = "loop"
    /\ UNCHANGED <<folder, existing_outputs, force, todo, filename, files_skipped, prev>>
    /\ UNCHANGED callvars

Next ==
    \/ \E f \in todo : NotImage(f)
    \/ \E f \in todo : SkipExisting(f)
    \/ \E f \in todo : OpenFails(f)
    \/ \E f \in todo : Open(f)
    \/ Begin
    \/ SeedEdges
    \/ FillStep
    \/ ApplyAndCrop
    \/ Return

\* the script at line 103, after lines 11, 14 and 98
Start(dir_in, dir_out, f) ==
    /\ folder = dir_in
    /\ outdir = dir_out
    /\ existing_outputs = scan_outputs(dir_out)
    /\ force = f
    /\ todo = DOMAIN dir_in
    /\ filename = << >>
    /\ files_processed = 0
    /\ files_skipped = 0
    /\ files_skipped_no_bg = 0
    /\ writes = [n \in { out_name_of(g) : g \in DOMAIN dir_in } |-> 0]

\* no call of remove_background has been made yet
NoFrame ==
    /\ bg_candidates = {}
    /\ pixels = Unset
    /\ visited = Unset
    /\ q = << >>
    /\ enq = Unset
    /\ result = Unset
    /\ prev = Unset

a_png == << "a", ".", "p", "n", "g" >>
A_JPG == << "A", ".", "J", "P", "G" >>
n_txt == << "n", ".", "t", "x", "t" >>
e_png == << "é", ".", "p", "n", "g" >>
E_JPG == << "É", ".", "J", "P", "G" >>

EmptyDir == [n \in {} |-> Old]

\* the subsets of S with at most k elements
RECURSIVE SubsetsUpTo(_, _)
SubsetsUpTo(S, k) ==
    IF k = 0 THEN {{}}
    ELSE LET P == SubsetsUpTo(S, k - 1)
         IN P \cup { p \cup {x} : p \in P, x \in S }

\* one input file holding an opaque white image with at most MaxRed red
\* pixels; an empty output folder
InitOne ==
    \E d \in (1 .. MaxW) \X (1 .. MaxH) :
        \E reds \in SubsetsUpTo(Coords(d[1], d[2]), MaxRed) :
            Start([n \in {a_png} |->
                      Image(d[1], d[2],
                            [c \in Coords(d[1], d[2]) |->
                                WithAlpha(IF c \in reds THEN Red ELSE White, 255)])],
                  EmptyDir, FALSE)

AllWhite == Image(2, 2, [c \in Coords(2, 2) |-> WithAlpha(White, 255)])
DarkCorners ==
    Image(3, 3, [c \in Coords(3, 3) |->
        IF c[1] # 1 /\ c[2] # 1 THEN WithAlpha(Black, 255) ELSE WithAlpha(White, 255)])
Framed ==
    Image(3, 3, [c \in Coords(3, 3) |->
        IF c = <<1, 1>> THEN WithAlpha(Red, 255) ELSE WithAlpha(White, 255)])
\* a half-transparent image: a red pixel in a white frame, alpha 128 throughout
Translucent ==
    Image(3, 3, [c \in Coords(3, 3) |->
        IF c = <<1, 1>> THEN WithAlpha(Red, 128) ELSE WithAlpha(White, 128)])

\* two image files whose stems differ in case only, within or beyond ASCII,
\* and a text file; an output folder that may hold earlier outputs, one of
\* them possibly a directory; with or without CROP_FORCE=1
InitBatch ==
    \E ca, cb \in {AllWhite, DarkCorners, Framed, Translucent, Corrupt},
       names \in { << a_png, A_JPG >>, << e_png, E_JPG >> }, f \in BOOLEAN :
        \E old \in SUBSET {names[1], n_txt}, kind \in {Old, Dir} :
            /\ names[1] \notin old => kind = Old
            /\ Start([n \in {names[1], names[2], n_txt} |->
                          IF n = names[1] THEN ca ELSE IF n = names[2] THEN cb ELSE Corrupt],
                     [n \in old |-> IF n = names[1] THEN kind ELSE Old], f)

Init ==
    /\ InitOne \/ InitBatch
    /\ NoFrame
    /\ img = Unset
    /\ tol = TOLERANCE
    /\ pc = "loop"

Spec == Init /\ [][Next]_vars

----------------------------------------------------------------------------
(* Direct calls remove_background(img, tol), and a second call made either *)
(* on the buffer the first one returned or on the same image with a larger *)
(* tolerance.                                                              *)

Summary(kind) ==
    [mode |-> "summary", kind |-> kind, img |-> img, tol |-> tol, bg_candidates |-> bg_candidates,
     result |-> result,
     marked |-> IF result = None THEN {} ELSE { c \in DOMAIN visited : visited[c] }]

\* remove_background(processed, tol): a run on its own output
CallOnOutput ==
    /\ pc = "done"
    /\ prev = Unset
    /\ result # None
    /\ prev' = Summary("output")
    /\ img' = result
    /\ Frame
    /\ pc' = "call"
    /\ UNCHANGED tol
    /\ UNCHANGED loopvars

\* remove_background(img, t) with t above the tolerance of the call before
CallWithTol(t) ==
    /\ pc = "done"
    /\ prev = Unset
    /\ t > tol
    /\ prev' = Summary("tolerance")
    /\ tol' = t
    /\ Frame
    /\ pc' = "call"
    /\ UNCHANGED img
    /\ UNCHANGED loopvars

NextCalls ==
    \/ Begin
    \/ SeedEdges
    \/ FillStep
    \/ ApplyAndCrop
    \/ CallOnOutput
    \/ \E t \in Tols : CallWithTol(t)

InitCalls ==
    \E t \in Tols, d \in (1 .. ToneW) \X (1 .. ToneH) :
        \E f \in [Coords(d[1], d[2]) -> {WithAlpha(p, 255) : p \in Tones}] :
            /\ Cardinality({ c \in DOMAIN f : f[c] # WithAlpha(White, 255) }) <= MaxTinted
            /\ Start(EmptyDir, EmptyDir, FALSE)
            /\ NoFrame
            /\ img = Image(d[1], d[2], f)
            /\ tol = t
            /\ pc = "call"

SpecCalls == InitCalls /\ [][NextCalls]_vars

----------------------------------------------------------------------------
(* Vocabulary of the properties.                                           *)

\* the flood fill of the current call has been set up
FloodStarted == pixels.mode = "RGBA"

\* the current call has returned a buffer
Ran == pc = "done" /\ FloodStarted

Marked == { c \in DOMAIN visited : visited[c] }
Unmarked == { c \in DOMAIN visited : ~visited[c] }

BgClass == { c \in DOMAIN pixels.px : is_bg(pixels.px[c], bg_candidates, tol) }

OnBorder(c) ==
    c[1] = 0 \/ c[1] = pixels.w - 1 \/ c[2] = 0 \/ c[2] = pixels.h - 1

Adjacent(c, d) ==
    \/ c[1] = d[1] /\ (c[2] = d[2] + 1 \/ d[2] = c[2] + 1)
    \/ c[2] = d[2] /\ (c[1] = d[1] + 1 \/ d[1] = c[1] + 1)

\* least set holding S that is closed under stepping to an adjacent
\* background-classified pixel
RECURSIVE Grow(_)
Grow(S) ==
    LET T == S \cup { c \in BgClass : \E d \in S : Adjacent(c, d) }
    IN  IF T = S THEN S ELSE Grow(T)

BorderConnected == Grow({ c \in BgClass : OnBorder(c) })

\* C1: once the queue has emptied, the marked pixels are exactly the
\* background-classified pixels joined to a background-classified border
\* pixel by a 4-connected path of background-classified pixels, and exactly
\* those pixels are transparent in the processed buffer.
C1_FloodMarksBorderConnected ==
    /\ (pc = "fill" /\ q = << >>) => Marked = BorderConnected
    /\ Ran => /\ Marked = BorderConnected
              /\ \A c \in DOMAIN pixels.px :
                    (pixels.px[c][4] = 0) <=> (c \in BorderConnected)

\* an enclosed near-white pixel stays unmarked while border-connected ones
\* are marked
C1_Witness ==
    /\ Ran
    /\ Marked # {}
    /\ \E c \in BgClass : c \notin Marked /\ ~OnBorder(c)

\* near-white as the specification words it: every channel >= 255 - tolerance
NearWhite(p, t) == p[1] >= 255 - t /\ p[2] >= 255 - t /\ p[3] >= 255 - t

Corners(im) ==
    { <<0, 0>>, <<im.w - 1, 0>>, <<0, im.h - 1>>, <<im.w - 1, im.h - 1>> }

NoNearWhiteCorner == \A c \in Corners(img) : ~NearWhite(img.px[c], tol)

\* C2: a call on an image none of whose four corners is near-white returns
\* None in its next step, without setting up or running the flood fill and
\* without changing the input buffer.
C2_NoNearWhiteCornerSkips ==
    [][ (pc = "call" /\ NoNearWhiteCorner) =>
            /\ pc' = "done"
            /\ result' = None
            /\ img' = img
            /\ pixels' = pixels /\ visited' = visited /\ q' = q /\ enq' = enq
      ]_vars

\* corners that are not near-white around a white pixel: the call was skipped
C2_Witness ==
    /\ pc = "done"
    /\ result = None
    /\ NoNearWhiteCorner
    /\ ~FloodStarted
    /\ \E c \in DOMAIN img.px : NearWhite(img.px[c], 0)

AllMarked == FloodStarted /\ \A c \in DOMAIN visited : visited[c]

\* C3: when the flood fill has marked every pixel the call returns the skip
\* signal and no buffer for the caller to save.
C3_AllMarkedReturnsSkip ==
    (pc = "done" /\ AllMarked) => result = None

\* left, top, right and bottom of the pixels the flood fill left unmarked
Left == Min({ c[1] : c \in Unmarked })
Top == Min({ c[2] : c \in Unmarked })
Right == Max({ c[1] : c \in Unmarked })
Bottom == Max({ c[2] : c \in Unmarked })

\* C6: when some pixel stays unmarked, the returned buffer is the window of
\* the processed buffer that spans exactly the columns Left..Right and the
\* rows Top..Bottom of the unmarked pixels; its first and last row and its
\* first and last column each hold an opaque pixel.
C6_CropIsMinimalBoundingBox ==
    (Ran /\ Unmarked # {}) =>
        /\ result.w = Right - Left + 1
        /\ result.h = Bottom - Top + 1
        /\ DOMAIN result.px = Coords(result.w, result.h)
        /\ \A c \in DOMAIN result.px :
              result.px[c] = pixels.px[<<c[1] + Left, c[2] + Top>>]
        /\ \A u \in Unmarked :
              result.px[<<u[1] - Left, u[2] - Top>>][4] # 0
        /\ \E c \in DOMAIN result.px : c[1] = 0 /\ result.px[c][4] # 0
        /\ \E c \in DOMAIN result.px : c[1] = result.w - 1 /\ result.px[c][4] # 0
        /\ \E c \in DOMAIN result.px : c[2] = 0 /\ result.px[c][4] # 0
        /\ \E c \in DOMAIN result.px : c[2] = result.h - 1 /\ result.px[c][4] # 0

\* a one-pixel white border around a red interior: the interior is returned
C6_Witness ==
    /\ Ran
    /\ Unmarked # {}
    /\ \A c \in DOMAIN img.px : OnBorder(c) <=> NearWhite(img.px[c], 0)
    /\ result.w = img.w - 2 /\ result.h = img.h - 2
    /\ \A c \in DOMAIN result.px : result.px[c] = WithAlpha(Red, 255)

\* pixels never appended so far plus pixels waiting in the queue
Variant ==
    Cardinality({ c \in DOMAIN enq : enq[c] = 0 }) + Len(q)

\* C7: throughout a call a pixel has been appended to the queue once if it
\* is marked and never otherwise; every iteration of the fill loop lowers by
\* one the count of never-appended pixels plus queued pixels, a count that
\* starts at w*h at most, so the loop ends after at most w*h iterations; and
\* the call returns with an empty queue.
C7_TerminatesEachPixelOnce ==
    /\ [](FloodStarted =>
            \A c \in DOMAIN enq : enq[c] = IF visited[c] THEN 1 ELSE 0)
    /\ [](FloodStarted => Variant <= pixels.w * pixels.h)
    /\ [](pc = "done" => q = << >>)
    /\ [][ pc = "fill" => (pc' = "done" \/ Variant' = Variant - 1) ]_vars

\* a corner, which both seeding loops pass to enqueue_if_bg, was appended once
C7_Witness ==
    /\ Ran
    /\ q = << >>
    /\ pixels.w >= 2 /\ pixels.h >= 2
    /\ enq[<<0, 0>>] = 1
    /\ \E c \in DOMAIN enq : ~OnBorder(c) /\ enq[c] = 1

\* source pixel of pixel c of the returned buffer
Source(c) ==
    IF Unmarked = {} THEN c ELSE <<c[1] + Left, c[2] + Top>>

\* C8 as claimed: returned pixels keep the input colour, marked ones have
\* alpha 0 and unmarked ones keep the alpha they had in the input.
C8_UnmarkedKeepInputAlpha ==
    Ran =>
        \A c \in DOMAIN result.px :
            /\ \A i \in 1 .. 3 : result.px[c][i] = img.px[Source(c)][i]
            /\ visited[Source(c)] => result.px[c][4] = 0
            /\ ~visited[Source(c)] => result.px[c][4] = img.px[Source(c)][4]

\* C8 amended: returned pixels keep the input colour, marked ones have alpha
\* 0 and unmarked ones have alpha 255 whatever alpha they had in the input.
C8_UnmarkedBecomeOpaque ==
    Ran =>
        \A c \in DOMAIN result.px :
            /\ \A i \in 1 .. 3 : result.px[c][i] = img.px[Source(c)][i]
            /\ visited[Source(c)] => result.px[c][4] = 0
            /\ ~visited[Source(c)] => result.px[c][4] = 255

\* an input with transparency of which some pixels were marked, some not
C8_Witness ==
    /\ Ran
    /\ Marked # {}
    /\ \E c \in DOMAIN result.px :
          ~visited[Source(c)] /\ img.px[Source(c)][4] # 255 /\ result.px[c][4] = 255

\* stem of an output name
OutStem(n) == splitext(n)[1]

\* input files the loop has passed that are written to output name n
Passed(n) ==
    { f \in (DOMAIN folder) \ todo :
        is_image_name(f) /\ lower(splitext(f)[1]) \o PNG = n }

\* C9 as claimed: without the force flag an output name is saved at most
\* once in a run, and never when an output of that stem was already there.
C9_EachOutputWrittenOnce ==
    ~force =>
        \A n \in DOMAIN writes :
            writes[n] <= IF OutStem(n) \in existing_outputs THEN 0 ELSE 1

\* C9 amended: without the force flag no input is processed whose stem was
\* among the .png entries of the output folder when the script started:
\* remove_background is never entered for it, and such an output is left as
\* it was; outputs saved earlier in the same run are not looked at, and an
\* output name is saved at most once for every input file of that stem the
\* loop has passed.
C9_StartupOutputsAreKept ==
    ~force =>
        /\ pc # "loop" => stem_of(filename) \notin existing_outputs
        /\ \A n \in DOMAIN writes :
              /\ OutStem(n) \in existing_outputs =>
                    /\ writes[n] = 0
                    /\ n \in DOMAIN outdir => outdir[n] \in {Old, Dir}
              /\ writes[n] <= Cardinality(Passed(n))

\* both inputs of a stem whose output predates the run were skipped, the
\* stems being equal only after lower-casing a letter beyond ASCII
C9_Witness ==
    /\ ~force
    /\ todo = {}
    /\ files_skipped = 2
    /\ files_processed = 0
    /\ e_png \in DOMAIN outdir /\ outdir[e_png] = Old
    /\ Passed(e_png) = {e_png, E_JPG}

\* C4: when a call is repeated on the same image with a larger tolerance,
\* every pixel the first call marked is marked by the second, a skipped call
\* counting as having marked nothing.
C4_ToleranceMonotone ==
    (pc = "done" /\ prev.mode = "summary" /\ prev.kind = "tolerance") =>
        /\ prev.marked # {} => FloodStarted
        /\ \A c \in prev.marked : visited[c]

\* the larger tolerance marks strictly more than a first call that marked
\* something
C4_Witness ==
    /\ pc = "done"
    /\ prev.mode = "summary" /\ prev.kind = "tolerance"
    /\ FloodStarted
    /\ prev.marked # {}
    /\ \E c \in DOMAIN visited : visited[c] /\ c \notin prev.marked
    /\ Unmarked # {}

\* the call under way runs on the buffer the previous call returned
Rerun == prev.mode = "summary" /\ prev.kind = "output"

\* C5 as claimed: a second run on the returned buffer marks no pixel that
\* is opaque in that buffer.
C5_RerunMarksNoOpaquePixel ==
    (Ran /\ Rerun) =>
        \A c \in DOMAIN img.px : img.px[c][4] # 0 => ~visited[c]

\* every pixel of the buffer that the second run classifies as background
\* was classified as background by the first run
SameBackground ==
    \A c \in DOMAIN img.px :
        is_bg(img.px[c], bg_candidates, tol) => is_bg(img.px[c], prev.bg_candidates, tol)

\* C5 amended: a second run on the returned buffer marks no pixel that is
\* opaque in that buffer, provided every pixel the second run classifies as
\* background was classified as background by the first run.
C5_RerunMarksNoOpaquePixelSameBackground ==
    (Ran /\ Rerun /\ SameBackground) =>
        \A c \in DOMAIN img.px : img.px[c][4] # 0 => ~visited[c]

\* a second run that marked transparent pixels again and left an opaque
\* pixel of background colour unmarked
C5_Witness ==
    /\ Ran
    /\ Rerun
    /\ SameBackground
    /\ Marked # {}
    /\ \E c \in DOMAIN img.px :
          img.px[c][4] # 0 /\ is_bg(img.px[c], bg_candidates, tol) /\ ~visited[c]

ProbeLevels == {0, 195, 224, 225, 239, 240, 255}

\* C10: with a non-empty set of reference colours, a pixel is classified as
\* background exactly when it is within the tolerance, on every channel, of
\* some reference colour.
C10_FallbackNeverDecides ==
    pc = "seed" =>
        \A r, g, b \in ProbeLevels :
            is_bg(<<r, g, b>>, bg_candidates, tol)
                <=> \E bg \in bg_candidates :
                        /\ r - bg[1] <= tol /\ bg[1] - r <= tol
                        /\ g - bg[2] <= tol /\ bg[2] - g <= tol
                        /\ b - bg[3] <= tol /\ bg[3] - b <= tol

\* the only reference colour is off-white and the buffer holds a white pixel
C10_Witness ==
    /\ pc = "seed"
    /\ bg_candidates = {Cream}
    /\ \E c \in DOMAIN pixels.px : NearWhite(pixels.px[c], 0)

====
